---- MODULE Spec2Model ----
(***************************************************************************)
(* Model of the cached, retrying data-fetch layer of the portfolio site:   *)
(*   api.js   (src/unnamed/part_002)  fetchAPI, the retrying fetch wrapper *)
(*   cache.js (src/unnamed/part_001)  the localStorage TTL cache           *)
(*                                                                         *)
(* JavaScript values are tagged records, so that values of different       *)
(* JavaScript types can be compared.  A string that holds JSON text is a   *)
(* sequence of tokens; JSONstringify and JSONparse convert between values  *)
(* and token sequences the way JSON.stringify and JSON.parse do.           *)
(***************************************************************************)
EXTENDS Integers, Sequences, FiniteSets, TLC

VARIABLES
    \* ---- one fetchAPI call (api.js) ----
    apiPc,        \* "idle" | "awaitFetch" | "awaitSleep" | "done"
    maxRetries,   \* parameter of the call
    retryDelay,   \* parameter of the call
    attempt,      \* the loop variable of fetchAPI
    lastError,    \* the local lastError
    fetchCalls,   \* number of calls made to fetch(url, options)
    fetchLog,     \* the outcome of each settled fetch call, in order
    sleepLog,     \* the argument of each call to sleep(ms), in order
    apiResult,    \* how the promise returned by fetchAPI settled
    \* ---- the TTL cache over localStorage (cache.js) ----
    storage,      \* localStorage: full key -> stored string or NoItem
    now,          \* what Date.now() reads
    lastCall,     \* the last cache operation and what it returned
    expiredRead,  \* the keys a getCachedData found expired, with no write since
    \* ---- calls of fetchWithCache (cache.js) ----
    calls,        \* call id -> where the call is and what it has done
    writer,       \* cache key -> the call whose write the key's entry is, or 0
    \* ---- the page loaders (blogs.js, blog.js, home.js, utils.js) ----
    loads,        \* loader -> where its run is and what its container shows
    \* ---- the theme system (theme.js) ----
    darkClass,    \* document.documentElement has the class 'dark'
    systemDark,   \* matchMedia('(prefers-color-scheme: dark)').matches
    themeReady,   \* initTheme has run: the listeners are registered
    manual,       \* the user has used the toggle, in this visit or an earlier one
    toggleLabel,  \* the aria-label of the toggle button
    themeLog      \* the theme events of this visit, in order

apiVars == <<apiPc, maxRetries, retryDelay, attempt, lastError, fetchCalls,
             fetchLog, sleepLog, apiResult>>
cacheVars == <<storage, now, lastCall, expiredRead>>
fwcVars == <<calls, writer>>
themeVars == <<darkClass, systemDark, themeReady, manual, toggleLabel, themeLog>>
pageVars == <<loads, themeVars>>
vars == <<apiVars, cacheVars, fwcVars, pageVars>>

(***************************************************************************)
(* JavaScript values                                                       *)
(***************************************************************************)
Null == [t |-> "null"]
Undefined == [t |-> "undefined"]
Num(n) == [t |-> "num", n |-> n]
NaN == [t |-> "nan"]
Bool(b) == [t |-> "bool", b |-> b]
Str(s) == [t |-> "str", s |-> s]
Arr(items) == [t |-> "arr", items |-> items]
\* an object is its own properties in insertion order, each <<name, value>>
Obj(props) == [t |-> "obj", props |-> props]
\* an Error instance (TypeError, SyntaxError, ...) with its message
ErrorObject(name, message) == [t |-> "error", name |-> name, message |-> message]

IsNullish(v) == v.t \in {"null", "undefined"}

\* what the abstract operation ToBoolean gives (if (x), !x, x || y)
ToBoolean(v) ==
    CASE v.t \in {"null", "undefined", "nan"} -> FALSE
      [] v.t = "bool" -> v.b
      [] v.t = "num" -> v.n # 0
      [] v.t = "str" -> v.s # ""
      [] OTHER -> TRUE

(***************************************************************************)
(* JSON text as a sequence of tokens                                       *)
(***************************************************************************)
P(c) == [tok |-> "punct", c |-> c]
N(n) == [tok |-> "number", n |-> n]
S(s) == [tok |-> "string", s |-> s]
L(w) == [tok |-> "literal", w |-> w]

IsP(tk, c) == tk.tok = "punct" /\ tk.c = c

RECURSIVE JSONstringify(_)
RECURSIVE StringifyItems(_, _)
RECURSIVE StringifyProps(_, _)

\* the elements of an array: undefined is written as null
StringifyItems(items, first) ==
    IF items = <<>> THEN <<>>
    ELSE (IF first THEN <<>> ELSE <<P(",")>>)
         \o (IF Head(items).t = "undefined" THEN <<L("null")>>
             ELSE JSONstringify(Head(items)))
         \o StringifyItems(Tail(items), FALSE)

\* the properties of an object: a property whose value is undefined is left out
StringifyProps(props, first) ==
    IF props = <<>> THEN <<>>
    ELSE IF Head(props)[2].t = "undefined" THEN StringifyProps(Tail(props), first)
    ELSE (IF first THEN <<>> ELSE <<P(",")>>)
         \o <<S(Head(props)[1]), P(":")>> \o JSONstringify(Head(props)[2])
         \o StringifyProps(Tail(props), FALSE)

JSONstringify(v) ==
    CASE v.t = "null" -> <<L("null")>>
      [] v.t = "nan" -> <<L("null")>>
      [] v.t = "bool" -> <<L(IF v.b THEN "true" ELSE "false")>>
      [] v.t = "num" -> <<N(v.n)>>
      [] v.t = "str" -> <<S(v.s)>>
      [] v.t = "arr" -> <<P("[")>> \o StringifyItems(v.items, TRUE) \o <<P("]")>>
      [] v.t = "obj" -> <<P("{")>> \o StringifyProps(v.props, TRUE) \o <<P("}")>>

\* the result of parsing a prefix of a token sequence
ParseFail == [ok |-> FALSE]
ParseOk(v, rest) == [ok |-> TRUE, value |-> v, rest |-> rest]

\* defining a property again replaces its value and keeps its place
RECURSIVE DefineProp(_, _, _)
DefineProp(props, name, v) ==
    IF props = <<>> THEN <<<<name, v>>>>
    ELSE IF Head(props)[1] = name THEN <<<<name, v>>>> \o Tail(props)
    ELSE <<Head(props)>> \o DefineProp(Tail(props), name, v)

RECURSIVE ParseValue(_)
RECURSIVE ParseItems(_, _)
RECURSIVE ParseMembers(_, _)

\* after "[" or ",": a value, then "," or "]"
ParseItems(toks, acc) ==
    LET r == ParseValue(toks) IN
    IF ~r.ok \/ r.rest = <<>> THEN ParseFail
    ELSE IF IsP(Head(r.rest), "]")
         THEN ParseOk(Arr(Append(acc, r.value)), Tail(r.rest))
    ELSE IF IsP(Head(r.rest), ",")
         THEN ParseItems(Tail(r.rest), Append(acc, r.value))
    ELSE ParseFail

\* after "{" or ",": a string, ":", a value, then "," or "}"
ParseMembers(toks, acc) ==
    IF Len(toks) < 2 \/ Head(toks).tok # "string" \/ ~IsP(toks[2], ":") THEN ParseFail
    ELSE LET r == ParseValue(Tail(Tail(toks))) IN
         IF ~r.ok \/ r.rest = <<>> THEN ParseFail
         ELSE IF IsP(Head(r.rest), "}")
              THEN ParseOk(Obj(DefineProp(acc, Head(toks).s, r.value)), Tail(r.rest))
         ELSE IF IsP(Head(r.rest), ",")
              THEN ParseMembers(Tail(r.rest), DefineProp(acc, Head(toks).s, r.value))
         ELSE ParseFail

ParseValue(toks) ==
    IF toks = <<>> THEN ParseFail
    ELSE LET h == Head(toks) IN
         CASE h.tok = "literal" ->
                  IF h.w \in {"null", "true", "false"}
                  THEN ParseOk(CASE h.w = "null" -> Null
                                 [] h.w = "true" -> Bool(TRUE)
                                 [] OTHER -> Bool(FALSE), Tail(toks))
                  ELSE ParseFail
           [] h.tok = "number" -> ParseOk(Num(h.n), Tail(toks))
           [] h.tok = "string" -> ParseOk(Str(h.s), Tail(toks))
           [] IsP(h, "[") ->
                  IF Len(toks) >= 2 /\ IsP(toks[2], "]")
                  THEN ParseOk(Arr(<<>>), Tail(Tail(toks)))
                  ELSE ParseItems(Tail(toks), <<>>)
           [] IsP(h, "{") ->
                  IF Len(toks) >= 2 /\ IsP(toks[2], "}")
                  THEN ParseOk(Obj(<<>>), Tail(Tail(toks)))
                  ELSE ParseMembers(Tail(toks), <<>>)
           [] OTHER -> ParseFail

\* JSON.parse: the value, or a SyntaxError when the text is not one JSON value
JSONparse(text) ==
    LET r == ParseValue(text) IN
    IF r.ok /\ r.rest = <<>> THEN [ok |-> TRUE, value |-> r.value]
    ELSE [ok |-> FALSE, error |-> ErrorObject("SyntaxError", "Unexpected end of JSON input")]

\* obj.name for a value that is not null or undefined
RECURSIVE LookupProp(_, _)
LookupProp(props, name) ==
    IF props = <<>> THEN Undefined
    ELSE IF Head(props)[1] = name THEN Head(props)[2]
    ELSE LookupProp(Tail(props), name)

GetProp(v, name) ==
    CASE v.t = "obj" -> LookupProp(v.props, name)
      [] v.t = "error" /\ name = "message" -> Str(v.message)
      [] OTHER -> Undefined

(***************************************************************************)
(* api.js: fetchAPI                                                        *)
(***************************************************************************)
\* the default values of the parameters maxRetries and retryDelay
DEFAULT_MAX_RETRIES == 3
DEFAULT_RETRY_DELAY == 1000

\* the largest maxRetries a call is made with
MaxRetriesBound == 3

RetryCounts == 0..MaxRetriesBound
RetryDelays == {0, 1, DEFAULT_RETRY_DELAY}

\* what a call to fetch(url, options) settles to
Response(status, body) == [kind |-> "response", status |-> status, body |-> body]
Rejection(reason) == [kind |-> "reject", reason |-> reason]

StatusText(status) ==
    CASE status = 200 -> "OK"
      [] status = 404 -> "Not Found"
      [] status = 500 -> "Internal Server Error"
      [] OTHER -> ""

\* the JSON values the API answers with
ApiData == {Arr(<<>>), Arr(<<Obj(<<<<"id", Num(1)>>>>)>>)}

\* response bodies: JSON texts, an empty body and a truncated one
GoodBodies == {JSONstringify(d) : d \in ApiData}
BadBodies == {<<>>, <<P("["), P("{")>>}

\* the values fetch rejects with: a TypeError on a network failure, and
\* whatever reason options.signal was aborted with
RejectionReasons ==
    { ErrorObject("TypeError", "Failed to fetch"),
      ErrorObject("Error", ""),
      Str("aborted"),
      Null,
      Undefined }

TransportOutcomes ==
    {Response(200, b) : b \in GoodBodies \cup BadBodies}
    \cup {Response(500, <<>>), Response(404, JSONstringify(Obj(<<>>)))}
    \cup {Rejection(e) : e \in RejectionReasons}

\* response.ok
ResponseOk(status) == status >= 200 /\ status <= 299

HttpErrorMessage(status) ==
    "HTTP Error: " \o ToString(status) \o " " \o StatusText(status)

Return(v) == [threw |-> FALSE, value |-> v]
Throw(e) == [threw |-> TRUE, error |-> e]

\* a mutant of TryBody: the body is not awaited, the data is not the parsed body
TryBodyDataLost(outcome) ==
    IF outcome.kind = "reject" THEN Throw(outcome.reason)
    ELSE IF ~ResponseOk(outcome.status)
         THEN Throw(ErrorObject("Error", HttpErrorMessage(outcome.status)))
    ELSE LET parsed == JSONparse(outcome.body) IN
         IF parsed.ok THEN Return([success |-> TRUE, data |-> Undefined])
         ELSE Throw(parsed.error)

\* a mutant of TryBody: a body that does not parse is not an error
TryBodyParseSwallowed(outcome) ==
    IF outcome.kind = "reject" THEN Throw(outcome.reason)
    ELSE IF ~ResponseOk(outcome.status)
         THEN Throw(ErrorObject("Error", HttpErrorMessage(outcome.status)))
    ELSE LET parsed == JSONparse(outcome.body) IN
         IF parsed.ok THEN Return([success |-> TRUE, data |-> parsed.value])
         ELSE Return([success |-> TRUE, data |-> Undefined])

\* the try block of one iteration, from the point where fetch has settled
TryBody(outcome) ==
    IF outcome.kind = "reject" THEN Throw(outcome.reason)
    ELSE IF ~ResponseOk(outcome.status)
         THEN Throw(ErrorObject("Error", HttpErrorMessage(outcome.status)))
    ELSE LET parsed == JSONparse(outcome.body) IN
         IF parsed.ok THEN Return([success |-> TRUE, data |-> parsed.value])
         ELSE Throw(parsed.error)

\* a mutant of LoopCondition: one iteration too many
LoopConditionOffByOne(a, n) == a <= n + 1

\* the condition of the for loop
LoopCondition(a, n) == a <= n

\* a rational number of milliseconds
Rational(num, den) == [num |-> num, den |-> den]

\* Math.pow(1.5, k), exactly
MathPow15(k) == Rational(3 ^ k, 2 ^ k)

\* the delay slept after failed attempt a
BackoffDelay(d, a) == Rational(d * MathPow15(a).num, MathPow15(a).den)

\* lastError?.message || 'Failed to fetch data from API'
ExhaustedError(err) ==
    LET message == IF IsNullish(err) THEN Undefined ELSE GetProp(err, "message") IN
    IF ToBoolean(message) THEN message ELSE Str("Failed to fetch data from API")

Pending == [state |-> "pending"]
Fulfilled(v) == [state |-> "fulfilled", value |-> v]
Rejected(e) == [state |-> "rejected", reason |-> e]

\* error.message of a null or undefined error does not evaluate
MessageReadError ==
    ErrorObject("TypeError", "Cannot read properties of null (reading 'message')")

\* the head of the for loop with attempt = a: the next call to fetch, or
\* the return after the loop
LoopHead(a, n, err) ==
    /\ attempt' = a
    /\ IF LoopCondition(a, n)
       THEN /\ fetchCalls' = fetchCalls + 1
            /\ apiPc' = "awaitFetch"
            /\ apiResult' = apiResult
       ELSE /\ fetchCalls' = fetchCalls
            /\ apiPc' = "done"
            /\ apiResult' = Fulfilled([success |-> FALSE, error |-> ExhaustedError(err)])

\* fetchAPI(endpoint, options, n, d) runs up to its first await
CallFetchAPI(n, d) ==
    /\ apiPc = "idle"
    /\ maxRetries' = n
    /\ retryDelay' = d
    /\ lastError' = Null
    /\ LoopHead(0, n, Null)
    /\ UNCHANGED <<fetchLog, sleepLog>>

\* the awaited fetch settles; the call runs to its next await or its end
FetchSettles(outcome) ==
    /\ apiPc = "awaitFetch"
    /\ fetchLog' = Append(fetchLog, outcome)
    /\ UNCHANGED <<maxRetries, retryDelay>>
    /\ LET r == TryBody(outcome) IN
       IF ~r.threw
       THEN /\ apiPc' = "done"
            /\ apiResult' = Fulfilled(r.value)
            /\ UNCHANGED <<attempt, lastError, fetchCalls, sleepLog>>
       ELSE /\ lastError' = r.error
            /\ IF IsNullish(r.error)
               THEN \* console.warn(..., error.message) throws inside the catch block
                    /\ apiPc' = "done"
                    /\ apiResult' = Rejected(MessageReadError)
                    /\ UNCHANGED <<attempt, fetchCalls, sleepLog>>
               ELSE IF attempt < maxRetries
               THEN /\ sleepLog' = Append(sleepLog, BackoffDelay(retryDelay, attempt))
                    /\ apiPc' = "awaitSleep"
                    /\ UNCHANGED <<attempt, fetchCalls, apiResult>>
               ELSE /\ LoopHead(attempt + 1, maxRetries, r.error)
                    /\ UNCHANGED sleepLog

\* the timer of sleep(delay) fires; the loop goes to its next iteration
SleepSettles ==
    /\ apiPc = "awaitSleep"
    /\ LoopHead(attempt + 1, maxRetries, lastError)
    /\ UNCHANGED <<maxRetries, retryDelay, lastError, fetchLog, sleepLog>>

(***************************************************************************)
(* cache.js: the TTL cache over localStorage                               *)
(***************************************************************************)
\* a storage key is a sequence of segments, so that prefixes can be compared:
\* 'portfolio_cache_blogs' is <<"portfolio_", "cache_", "blogs">>
CACHE_PREFIX == <<"portfolio_", "cache_">>
CACHE_EXPIRY == 10 * 60 * 1000

\* theme.js keeps the theme in the same localStorage
THEME_KEY == <<"portfolio_", "theme">>
THEME_DARK == <<L("dark")>>
THEME_LIGHT == <<L("light")>>

\* the logical cache keys in use
Keys == {<<"blogs">>, <<"projects">>}
StorageKeys == {CACHE_PREFIX \o k : k \in Keys} \cup {THEME_KEY}

\* key.startsWith(prefix)
StartsWith(key, prefix) ==
    Len(key) >= Len(prefix) /\ SubSeq(key, 1, Len(prefix)) = prefix

\* the clock reads 0, CACHE_EXPIRY, or the millisecond after a whole number
\* of expiry periods
MaxPeriods == 1
ClockValues == {0, CACHE_EXPIRY} \cup {e * CACHE_EXPIRY + 1 : e \in 1..MaxPeriods}

\* the values callers cache
CacheData == {Null, Num(0), Arr(<<Obj(<<<<"id", Num(1)>>>>)>>)}

\* what localStorage.getItem gives: null, or the stored string
NoItem == [item |-> "none"]
Item(text) == [item |-> "string", text |-> text]

\* strings another script, another tab or an older version of the site can
\* leave under a cache key
ForeignStrings ==
    { <<>>,                                              \* the empty string
      <<P("{"), S("data"), P(":")>>,                     \* truncated JSON
      <<L("null")>>,
      <<N(5)>>,
      JSONstringify(Obj(<<<<"data", Num(7)>>>>)),       \* no timestamp
      JSONstringify(Obj(<<<<"data", Num(7)>>, <<"timestamp", Str("soon")>>>>)),
      JSONstringify(Obj(<<<<"timestamp", Num(0)>>>>)) } \* no data

\* the abstract operation ToNumber, on the values a stored timestamp can be
ToNumber(v) ==
    CASE v.t = "num" -> v
      [] v.t = "null" -> Num(0)
      [] v.t = "bool" -> Num(IF v.b THEN 1 ELSE 0)
      [] v.t = "str" /\ v.s = "" -> Num(0)
      [] v.t = "arr" /\ v.items = <<>> -> Num(0)
      [] OTHER -> NaN

\* a mutant of IsExpired: an entry aged exactly CACHE_EXPIRY is expired
IsExpiredAtTtl(t, timestamp) ==
    LET ts == ToNumber(timestamp) IN
    ts.t = "num" /\ t - ts.n >= CACHE_EXPIRY

\* now - timestamp > CACHE_EXPIRY; a comparison with NaN is false
IsExpired(t, timestamp) ==
    LET ts == ToNumber(timestamp) IN
    ts.t = "num" /\ t - ts.n > CACHE_EXPIRY

Hit(data) == [ret |-> data, remove |-> FALSE]
Miss == [ret |-> Null, remove |-> FALSE]
Expired == [ret |-> Null, remove |-> TRUE]

\* a mutant of ReadCache: an expired entry is not removed
ReadCacheKeepsExpired(cached, t) ==
    IF cached = NoItem \/ cached.text = <<>> THEN Miss
    ELSE LET parsed == JSONparse(cached.text) IN
         IF ~parsed.ok \/ IsNullish(parsed.value) THEN Miss
         ELSE IF IsExpired(t, GetProp(parsed.value, "timestamp")) THEN Miss
         ELSE Hit(GetProp(parsed.value, "data"))

\* a mutant of ReadCache: the stored text is returned unparsed as the data
ReadCacheUnparsed(cached, t) ==
    IF cached = NoItem \/ cached.text = <<>> THEN Miss
    ELSE LET parsed == JSONparse(cached.text) IN
         IF ~parsed.ok \/ IsNullish(parsed.value) THEN Miss
         ELSE IF IsExpired(t, GetProp(parsed.value, "timestamp")) THEN Expired
         ELSE Hit(parsed.value)

\* getCachedData from the point where getItem has returned `cached`, at time
\* t: what it returns and whether it calls removeItem.  JSON.parse throwing,
\* and destructuring null throwing, end in the catch block.
ReadCache(cached, t) ==
    IF cached = NoItem \/ cached.text = <<>> THEN Miss
    ELSE LET parsed == JSONparse(cached.text) IN
         IF ~parsed.ok \/ IsNullish(parsed.value) THEN Miss
         ELSE IF IsExpired(t, GetProp(parsed.value, "timestamp")) THEN Expired
         ELSE Hit(GetProp(parsed.value, "data"))

\* the cacheEntry object of setCachedData and its serialisation
CacheEntry(data, t) == Obj(<<<<"data", data>>, <<"timestamp", Num(t)>>>>)
SerializedEntry(data, t) == JSONstringify(CacheEntry(data, t))

NoCall == [op |-> "none"]

\* getCachedData(key); getItemThrows: localStorage.getItem throws
GetCachedData(key, getItemThrows) ==
    LET cacheKey == CACHE_PREFIX \o key
        cached == storage[cacheKey]
        r == IF getItemThrows THEN Miss ELSE ReadCache(cached, now)
    IN  /\ storage' = IF r.remove THEN [storage EXCEPT ![cacheKey] = NoItem] ELSE storage
        /\ expiredRead' = IF r.remove THEN expiredRead \cup {key} ELSE expiredRead
        /\ lastCall' = [op |-> "get", key |-> key, threw |-> getItemThrows,
                        found |-> cached, at |-> now, ret |-> r.ret,
                        prior |-> IF /\ lastCall.op = "set"
                                     /\ lastCall.key = key
                                     /\ lastCall.accepted
                                  THEN lastCall ELSE NoCall]
        /\ UNCHANGED now

\* a mutant of WriteCache: no try/catch around setItem
WriteCacheNoCatch(cached, data, t, setItemThrows) ==
    [item |-> IF setItemThrows THEN cached ELSE Item(SerializedEntry(data, t)),
     threw |-> setItemThrows]

\* a mutant of WriteCache: an item already stored is not replaced
WriteCacheKeepsFirst(cached, data, t, setItemThrows) ==
    [item |-> IF setItemThrows \/ cached # NoItem THEN cached
              ELSE Item(SerializedEntry(data, t)),
     threw |-> FALSE]

\* the body of setCachedData at time t, over the item stored under the key:
\* the item stored afterwards, and whether the call throws.  setItem either
\* stores the whole string or throws and stores nothing; the catch block
\* swallows what it throws.
WriteCache(cached, data, t, setItemThrows) ==
    [item |-> IF setItemThrows THEN cached ELSE Item(SerializedEntry(data, t)),
     threw |-> FALSE]

\* setCachedData(key, data); setItemThrows: localStorage.setItem throws
\* (the quota is exceeded)
SetCachedData(key, data, setItemThrows) ==
    LET cacheKey == CACHE_PREFIX \o key
        w == WriteCache(storage[cacheKey], data, now, setItemThrows)
    IN  /\ storage' = [storage EXCEPT ![cacheKey] = w.item]
        /\ expiredRead' = IF setItemThrows THEN expiredRead ELSE expiredRead \ {key}
        /\ lastCall' = [op |-> "set", key |-> key, data |-> data, at |-> now,
                        accepted |-> ~setItemThrows, threw |-> w.threw]
        /\ UNCHANGED now

\* the storage keys clearCache(key) removes
RemovedByClear(key) == {CACHE_PREFIX \o key}

\* a mutant of RemovedByClearAll: every key of the site is removed
RemovedByClearAllSite(present) ==
    {k \in present : StartsWith(k, <<"portfolio_">>)}

\* the storage keys clearAllCaches removes, of the keys present
RemovedByClearAll(present) ==
    {k \in present : StartsWith(k, CACHE_PREFIX)}

\* clearCache(key)
ClearCache(key) ==
    /\ storage' = [k \in DOMAIN storage |->
                      IF k \in RemovedByClear(key) THEN NoItem ELSE storage[k]]
    /\ lastCall' = [op |-> "clear", key |-> key]
    /\ UNCHANGED <<now, expiredRead>>

\* clearAllCaches()
ClearAllCaches ==
    LET present == {k \in DOMAIN storage : storage[k] # NoItem}
        removed == RemovedByClearAll(present)
    IN  /\ storage' = [k \in DOMAIN storage |->
                          IF k \in removed THEN NoItem ELSE storage[k]]
        /\ lastCall' = [op |-> "clearAll", removed |-> Cardinality(removed)]
        /\ UNCHANGED <<now, expiredRead>>

\* the environment: the clock moves (forward, or back when it is adjusted)
ClockMoves(t) ==
    /\ t # now
    /\ now' = t
    /\ UNCHANGED <<storage, lastCall, expiredRead>>

\* the environment: something else stores a string under a cache key
ForeignWrite(key, text) ==
    /\ storage' = [storage EXCEPT ![CACHE_PREFIX \o key] = Item(text)]
    /\ expiredRead' = expiredRead \ {key}
    /\ lastCall' = [op |-> "foreign", key |-> key]
    /\ UNCHANGED now

(***************************************************************************)
(* fetchWithCache (cache.js): stale-while-revalidate over the TTL cache     *)
(***************************************************************************)
\* the calls that may be in flight together
MaxCalls == 2
CallIds == 1..MaxCalls

\* what fetchFunction resolves with: an ApiResult
SuccessResult(data) == [success |-> TRUE, data |-> data]
FailureResult == [success |-> FALSE, error |-> Str("Failed to fetch data from API")]
ApiResults == {SuccessResult(d) : d \in ApiData} \cup {FailureResult}

\* how the promise of fetchFunction() settles; api.js's fetchers reject when
\* fetchAPI does
FetchFnOutcomes ==
    {Fulfilled(r) : r \in ApiResults} \cup {Rejected(MessageReadError)}

\* what a fetchFunction that is not an async function throws when called
ThrownByFetchFn == ErrorObject("Error", "fetchFunction threw")

\* if (cached)
CacheHit(cached) == ToBoolean(cached)

\* a mutant of FetchInvocations: a hit is served without revalidation
FetchInvocationsMissOnly(cached) == IF CacheHit(cached) THEN 0 ELSE 1

\* how many times the call invokes fetchFunction: line 98 on a hit, line 108
\* on a miss
FetchInvocations(cached) == IF CacheHit(cached) THEN 1 ELSE 1

\* a mutant of HitResult: the cache-hit path awaits the revalidation
HitResultAwaits(cached) == Pending

\* the cache-hit path's return: how the promise of fetchWithCache settles
HitResult(cached) ==
    Fulfilled([success |-> TRUE, data |-> cached, fromCache |-> TRUE])

\* a mutant of WritesFresh: whatever the fetch resolved with is cached
WritesFreshAlways(result) == TRUE

\* a mutant of WritesFresh: the test is inverted
WritesFreshOnFailure(result) == ~result.success

\* a mutant of WritesFresh: nothing is cached
WritesFreshNever(result) == FALSE

\* if (freshData.success) / if (result.success)
WritesFresh(result) == result.success

\* freshData.data / result.data
ResultData(result) == IF "data" \in DOMAIN result THEN result.data ELSE Undefined

IdleCall == [st |-> "idle"]

\* the key loadLatestBlogs caches under
BlogsKey == <<"blogs">>

\* the entry under the key is valid at time t: stored, parseable, unexpired
HoldsValid(cached, t) ==
    /\ cached # NoItem
    /\ JSONparse(cached.text).ok
    /\ JSONparse(cached.text).value.t = "obj"
    /\ GetProp(JSONparse(cached.text).value, "timestamp").t = "num"
    /\ ~IsExpired(t, GetProp(JSONparse(cached.text).value, "timestamp"))

\* fetchWithCache(cacheKey, fetchFunction), from the call to its first await or
\* its return.  getItemThrows: localStorage.getItem throws; fnThrows: calling
\* fetchFunction throws instead of returning a promise.
FetchWithCache(c, cacheKey, getItemThrows, fnThrows) ==
    /\ calls[c].st = "idle"
    /\ GetCachedData(cacheKey, getItemThrows)
    /\ LET cached == lastCall'.ret
           held == storage[CACHE_PREFIX \o cacheKey]
           started == [key |-> cacheKey, cached |-> cached,
                       readFault |-> getItemThrows,
                       invoked |-> FetchInvocations(cached),
                       valid |-> HoldsValid(held, now),
                       written |-> held # NoItem /\ held.text \notin ForeignStrings,
                       wrote |-> "none"]
       IN  calls' = [calls EXCEPT ![c] =
              IF fnThrows
              THEN started @@ [st |-> "done",
                               path |-> IF CacheHit(cached) THEN "hit" ELSE "miss",
                               fetched |-> Rejected(ThrownByFetchFn),
                               threwOnCall |-> TRUE,
                               result |-> Rejected(ThrownByFetchFn)]
              ELSE IF CacheHit(cached)
              THEN started @@ [st |-> "revalidating", path |-> "hit",
                               fetched |-> Pending, threwOnCall |-> FALSE,
                               result |-> HitResult(cached)]
              ELSE started @@ [st |-> "awaiting", path |-> "miss",
                               fetched |-> Pending, threwOnCall |-> FALSE,
                               result |-> Pending]]
    /\ writer' = IF storage'[CACHE_PREFIX \o cacheKey] # storage[CACHE_PREFIX \o cacheKey]
                 THEN [writer EXCEPT ![cacheKey] = 0] ELSE writer

\* the write both paths make with a result that settled the fetch
WriteFresh(c, result, setItemThrows) ==
    IF WritesFresh(result)
    THEN /\ SetCachedData(calls[c].key, ResultData(result), setItemThrows)
         /\ writer' = IF setItemThrows THEN writer
                      ELSE [writer EXCEPT ![calls[c].key] = c]
    ELSE UNCHANGED <<cacheVars, writer>>

Wrote(result, setItemThrows) ==
    IF ~WritesFresh(result) THEN "none"
    ELSE IF setItemThrows THEN "fault" ELSE "stored"

\* the promise of the background fetchFunction() settles: the .then callback,
\* or the .catch callback, runs
RevalidationSettles(c, outcome, setItemThrows) ==
    /\ calls[c].st = "revalidating"
    /\ IF outcome.state = "fulfilled"
       THEN /\ WriteFresh(c, outcome.value, setItemThrows)
            /\ calls' = [calls EXCEPT ![c].st = "done", ![c].fetched = outcome,
                            ![c].wrote = Wrote(outcome.value, setItemThrows)]
       ELSE /\ UNCHANGED <<cacheVars, writer>>
            /\ calls' = [calls EXCEPT ![c].st = "done", ![c].fetched = outcome]

\* the awaited fetchFunction() of the cache-miss path settles: the function
\* resumes after line 108 and runs to its return, or the await throws
AwaitedFetchSettles(c, outcome, setItemThrows) ==
    /\ calls[c].st = "awaiting"
    /\ IF outcome.state = "fulfilled"
       THEN /\ WriteFresh(c, outcome.value, setItemThrows)
            /\ calls' = [calls EXCEPT ![c].st = "done", ![c].fetched = outcome,
                            ![c].wrote = Wrote(outcome.value, setItemThrows),
                            ![c].result = Fulfilled(outcome.value)]
       ELSE /\ UNCHANGED <<cacheVars, writer>>
            /\ calls' = [calls EXCEPT ![c].st = "done", ![c].fetched = outcome,
                            ![c].result = Rejected(outcome.reason)]

\* what the cached home-page loaders do with the value their await of
\* fetchWithCache gives: the empty state, the cards, or (slice is not a
\* function, caught) the error message
LoaderView(projects) ==
    LET isValue == "t" \in DOMAIN projects
        length == IF isValue /\ projects.t = "arr" THEN Num(Len(projects.items))
                  ELSE Undefined
    IN  IF (isValue /\ ~ToBoolean(projects)) \/ length = Num(0) THEN "empty"
        ELSE IF isValue /\ projects.t = "arr" THEN "cards"
        ELSE "error"

\* a caller stores an entry directly
SeedCache(key, data, setItemThrows) ==
    /\ SetCachedData(key, data, setItemThrows)
    /\ writer' = IF setItemThrows THEN writer ELSE [writer EXCEPT ![key] = 0]
    /\ UNCHANGED calls

\* a caller clears the entry of a key
ClearEntry(key) ==
    /\ ClearCache(key)
    /\ writer' = [writer EXCEPT ![key] = 0]
    /\ UNCHANGED calls

\* another writer of the shared localStorage stores a string under the key
ForeignEntry(key, text) ==
    /\ ForeignWrite(key, text)
    /\ writer' = [writer EXCEPT ![key] = 0]
    /\ UNCHANGED calls

(***************************************************************************)
(* The page loaders: what a container shows when the loader's fetch ends   *)
(***************************************************************************)
Loaders == {"loadBlogs", "loadBlogPost", "loadProjects",
            "loadFeaturedProjects", "loadLatestBlogs", "loadLatestBlogsCached"}

\* a container before its loader runs
NotLoaded == [pc |-> "idle", view |-> "initial", fetched |-> Pending,
              promise |-> Pending]

\* x || y
Or(x, y) == IF ToBoolean(x) THEN x ELSE y

IsArray(v) == v.t = "arr"

\* response.data?.data || response.data
NestedData(response) ==
    LET data == ResultData(response)
        inner == IF IsNullish(data) THEN Undefined ELSE GetProp(data, "data")
    IN  Or(inner, data)

\* renderBlogs / renderProjects: the empty state for no list or an empty one
ListView(list) ==
    IF ~ToBoolean(list) \/ (IsArray(list) /\ Len(list.items) = 0) THEN "empty"
    ELSE "cards"

\* loadBlogs: the error message unless the response is a success with data
GuardedListView(response, prop) ==
    LET data == ResultData(response) IN
    IF response.success /\ ToBoolean(data)
    THEN ListView(IF IsArray(data) THEN data ELSE Or(GetProp(data, prop), Arr(<<>>)))
    ELSE "error"

\* loadProjects, loadFeaturedProjects, loadLatestBlogs: whatever is not a
\* list is taken for the empty list
PlainListView(response) ==
    LET found == Or(NestedData(response), Arr(<<>>))
        list == IF IsArray(found) THEN found ELSE Arr(<<>>)
    IN  ListView(list)

\* loadBlogPost: 'Blog post not found.' when the response carries no data
BlogPostView(response) ==
    IF ~ToBoolean(NestedData(response)) THEN "notFound" ELSE "post"

\* what the try block of the loader leaves in the container for a response
TryView(l, response) ==
    CASE l = "loadBlogs" -> GuardedListView(response, "blogs")
      [] l = "loadBlogPost" -> BlogPostView(response)
      [] l \in {"loadProjects", "loadFeaturedProjects", "loadLatestBlogs"}
           -> PlainListView(response)
      [] l = "loadLatestBlogsCached" -> LoaderView(response)

\* what the container shows while the fetch is pending: home.js's loaders
\* leave the container as the page has it
LoadingView(l) ==
    IF l \in {"loadFeaturedProjects", "loadLatestBlogs"} THEN "initial"
    ELSE "loading"

\* the container once the awaited fetch has settled: the catch block of
\* every loader writes its error message
Present(l, outcome) ==
    IF outcome.state = "rejected" THEN "error" ELSE TryView(l, outcome.value)

\* the loader is called, with its container on the page (and, for
\* loadBlogPost, a slug in the URL), and runs to its await
LoaderStarts(l) ==
    /\ loads[l].pc = "idle"
    /\ loads' = [loads EXCEPT ![l].pc = "awaiting", ![l].view = LoadingView(l)]

\* the awaited fetcher (for the cached loader: fetchWithCache on the miss
\* path, which settles as its fetchFunction does) settles and the loader
\* runs to its end
LoaderFetchSettles(l, outcome) ==
    /\ loads[l].pc = "awaiting"
    /\ loads' = [loads EXCEPT ![l] = [pc |-> "done", view |-> Present(l, outcome),
                                      fetched |-> outcome,
                                      promise |-> Fulfilled(Undefined)]]

(***************************************************************************)
(* theme.js: the theme, its toggle and the system preference               *)
(***************************************************************************)
\* the theme events one visit is followed for
MaxThemeEvents == 4

\* getCurrentTheme(): the saved theme, or else the system preference
GetCurrentTheme(saved, prefersDark) ==
    IF saved # NoItem /\ saved.text # <<>> THEN saved.text
    ELSE IF prefersDark THEN THEME_DARK ELSE THEME_LIGHT

\* updateThemeToggleButton(theme): the aria-label it sets
ButtonLabel(theme) ==
    IF theme = THEME_DARK THEN "Switch to light mode" ELSE "Switch to dark mode"

\* applyTheme(theme): the class of the document and the stored theme
ApplyTheme(theme) ==
    /\ darkClass' = (theme = THEME_DARK)
    /\ storage' = [storage EXCEPT ![THEME_KEY] = Item(theme)]

\* !localStorage.getItem(THEME_KEY)
NoSavedPreference(saved) == saved = NoItem \/ saved.text = <<>>

\* initTheme()
InitThemeRuns ==
    /\ ~themeReady
    /\ Len(themeLog) < MaxThemeEvents
    /\ LET theme == GetCurrentTheme(storage[THEME_KEY], systemDark) IN
       /\ ApplyTheme(theme)
       /\ toggleLabel' = ButtonLabel(theme)
    /\ themeReady' = TRUE
    /\ themeLog' = Append(themeLog, "init")
    /\ UNCHANGED <<systemDark, manual, now, lastCall, expiredRead>>

\* a click on the toggle button: toggleTheme() and the button's update
ToggleClicked ==
    /\ themeReady
    /\ Len(themeLog) < MaxThemeEvents
    /\ LET currentTheme == GetCurrentTheme(storage[THEME_KEY], systemDark)
           newTheme == IF currentTheme = THEME_DARK THEN THEME_LIGHT ELSE THEME_DARK
       IN  /\ ApplyTheme(newTheme)
           /\ toggleLabel' = ButtonLabel(newTheme)
    /\ manual' = TRUE
    /\ themeLog' = Append(themeLog, "toggle")
    /\ UNCHANGED <<systemDark, themeReady, now, lastCall, expiredRead>>

\* the system colour-scheme preference changes; once initTheme has run the
\* 'change' listener is called with the new preference
SystemPreferenceChanges ==
    /\ Len(themeLog) < MaxThemeEvents
    /\ systemDark' = ~systemDark
    /\ IF themeReady /\ NoSavedPreference(storage[THEME_KEY])
       THEN ApplyTheme(IF systemDark' THEN THEME_DARK ELSE THEME_LIGHT)
       ELSE UNCHANGED <<darkClass, storage>>
    /\ themeLog' = Append(themeLog, "system")
    /\ UNCHANGED <<themeReady, manual, toggleLabel, now, lastCall, expiredRead>>

(***************************************************************************)
(* Specifications                                                          *)
(***************************************************************************)
\* no call made, no loader run
InitCalls ==
    /\ apiPc = "idle"
    /\ maxRetries = DEFAULT_MAX_RETRIES
    /\ retryDelay = DEFAULT_RETRY_DELAY
    /\ attempt = 0
    /\ lastError = Null
    /\ fetchCalls = 0
    /\ fetchLog = <<>>
    /\ sleepLog = <<>>
    /\ apiResult = Pending
    /\ now = 0
    /\ lastCall = NoCall
    /\ expiredRead = {}
    /\ calls = [c \in CallIds |-> IdleCall]
    /\ writer = [k \in Keys |-> 0]
    /\ loads = [l \in Loaders |-> NotLoaded]

\* the page of a first visit on a dark system, once theme.js has loaded:
\* initTheme has run and applyTheme has stored the theme
Init ==
    /\ InitCalls
    /\ storage = [k \in StorageKeys |->
                    IF k = THEME_KEY THEN Item(THEME_DARK) ELSE NoItem]
    /\ darkClass = TRUE
    /\ systemDark = TRUE
    /\ themeReady = TRUE
    /\ manual = FALSE
    /\ toggleLabel = ButtonLabel(THEME_DARK)
    /\ themeLog = <<"init">>

\* the page before theme.js has run: the theme key as an earlier visit left
\* it, if there was one, and the system preference either way
InitBeforeTheme ==
    /\ InitCalls
    /\ \E saved \in {NoItem, Item(THEME_DARK), Item(THEME_LIGHT)} :
          /\ storage = [k \in StorageKeys |-> IF k = THEME_KEY THEN saved ELSE NoItem]
          /\ manual \in IF saved = NoItem THEN {FALSE} ELSE BOOLEAN
    /\ darkClass = FALSE
    /\ systemDark \in BOOLEAN
    /\ themeReady = FALSE
    /\ toggleLabel = "as the page has it"
    /\ themeLog = <<>>

NextApi ==
    \/ \E n \in RetryCounts, d \in RetryDelays : CallFetchAPI(n, d) /\ UNCHANGED <<cacheVars, fwcVars, pageVars>>
    \/ \E o \in TransportOutcomes : FetchSettles(o) /\ UNCHANGED <<cacheVars, fwcVars, pageVars>>
    \/ SleepSettles /\ UNCHANGED <<cacheVars, fwcVars, pageVars>>

NextCache ==
    \/ \E k \in Keys, f \in BOOLEAN : GetCachedData(k, f) /\ UNCHANGED <<apiVars, fwcVars, pageVars>>
    \/ \E k \in Keys, v \in CacheData, f \in BOOLEAN :
          SetCachedData(k, v, f) /\ UNCHANGED <<apiVars, fwcVars, pageVars>>
    \/ \E k \in Keys : ClearCache(k) /\ UNCHANGED <<apiVars, fwcVars, pageVars>>
    \/ ClearAllCaches /\ UNCHANGED <<apiVars, fwcVars, pageVars>>
    \/ \E t \in ClockValues : ClockMoves(t) /\ UNCHANGED <<apiVars, fwcVars, pageVars>>
    \/ \E k \in Keys, s \in ForeignStrings : ForeignWrite(k, s) /\ UNCHANGED <<apiVars, fwcVars, pageVars>>

\* one call of fetchAPI, from the call to its result
SpecApi == Init /\ [][NextApi]_vars

\* the same call when every fetch the transport was given settles and every
\* timer set by sleep(ms) fires
TransportSettles ==
    \E o \in TransportOutcomes :
       FetchSettles(o) /\ UNCHANGED <<cacheVars, fwcVars, pageVars>>
TimerFires == SleepSettles /\ UNCHANGED <<cacheVars, fwcVars, pageVars>>

SpecApiFair == SpecApi /\ WF_vars(TransportSettles) /\ WF_vars(TimerFires)

\* the cache operations, in any order, with the clock and the storage's faults
SpecCache == Init /\ [][NextCache]_vars

\* one call of fetchWithCache for the blog list, over an entry that callers
\* and other writers fill and clear and time ages; the call reads and writes the entry of its own key only
NextFwc ==
    \/ \E v \in CacheData, f \in BOOLEAN :
          SeedCache(BlogsKey, v, f) /\ UNCHANGED <<apiVars, pageVars>>
    \/ ClearEntry(BlogsKey) /\ UNCHANGED <<apiVars, pageVars>>
    \/ \E s \in ForeignStrings :
          ForeignEntry(BlogsKey, s) /\ UNCHANGED <<apiVars, pageVars>>
    \/ \E t \in ClockValues : ClockMoves(t) /\ UNCHANGED <<apiVars, fwcVars, pageVars>>
    \/ \E g \in BOOLEAN, th \in BOOLEAN :
          FetchWithCache(1, BlogsKey, g, th) /\ UNCHANGED <<apiVars, pageVars>>
    \/ \E o \in FetchFnOutcomes, f \in BOOLEAN :
          RevalidationSettles(1, o, f) /\ UNCHANGED <<apiVars, pageVars>>
    \/ \E o \in FetchFnOutcomes, f \in BOOLEAN :
          AwaitedFetchSettles(1, o, f) /\ UNCHANGED <<apiVars, pageVars>>

SpecFwc == Init /\ [][NextFwc]_vars

\* calls of fetchWithCache in flight together
NextRace ==
    \/ \E c \in CallIds, k \in Keys, g \in BOOLEAN, th \in BOOLEAN :
          FetchWithCache(c, k, g, th) /\ UNCHANGED <<apiVars, pageVars>>
    \/ \E c \in CallIds, o \in FetchFnOutcomes, f \in BOOLEAN :
          RevalidationSettles(c, o, f) /\ UNCHANGED <<apiVars, pageVars>>
    \/ \E c \in CallIds, o \in FetchFnOutcomes, f \in BOOLEAN :
          AwaitedFetchSettles(c, o, f) /\ UNCHANGED <<apiVars, pageVars>>

SpecRace == Init /\ [][NextRace]_vars

\* the page loaders, each run once, their fetches settling in any order
NextPages ==
    \/ \E l \in Loaders :
          LoaderStarts(l) /\ UNCHANGED <<apiVars, cacheVars, fwcVars, themeVars>>
    \/ \E l \in Loaders, o \in FetchFnOutcomes :
          LoaderFetchSettles(l, o) /\ UNCHANGED <<apiVars, cacheVars, fwcVars, themeVars>>

SpecPages == Init /\ [][NextPages]_vars

\* the theme system from the load of the page: initTheme, clicks on the
\* toggle and changes of the system preference
NextTheme ==
    \/ InitThemeRuns /\ UNCHANGED <<apiVars, fwcVars, loads>>
    \/ ToggleClicked /\ UNCHANGED <<apiVars, fwcVars, loads>>
    \/ SystemPreferenceChanges /\ UNCHANGED <<apiVars, fwcVars, loads>>

SpecTheme == InitBeforeTheme /\ [][NextTheme]_vars

(***************************************************************************)
(* Properties of fetchAPI, checked under SpecApi                           *)
(***************************************************************************)
Last(seq) == seq[Len(seq)]

\* a 2xx response whose body parses
IsSuccess(o) == o.kind = "response" /\ ResponseOk(o.status) /\ JSONparse(o.body).ok
\* a 2xx response whose body does not parse
IsParseFailure(o) == o.kind = "response" /\ ResponseOk(o.status) /\ ~JSONparse(o.body).ok
IsFailure(o) == ~IsSuccess(o)

\* delay = d * 1.5^k, over the rationals
DelayEquals(delay, d, k) == delay.num * (2 ^ k) = d * (3 ^ k) * delay.den
RationalLeq(a, b) == a.num * b.den <= b.num * a.den

\* the attempts (1-indexed positions of fetchLog) that failed with attempts remaining
FailedWithAttemptsLeft ==
    {i \in 1..Len(fetchLog) : IsFailure(fetchLog[i]) /\ i - 1 < maxRetries}

\* C1: a call with maxRetries = n never makes more than n+1 calls to fetch,
\* whatever the transport does; in particular not before a failure result.
C1_RetryBound ==
    /\ fetchCalls <= maxRetries + 1
    /\ Len(fetchLog) <= fetchCalls

\* C1 witness: all n+1 attempts of a call with n >= 2 failed and the call
\* returned a failure result.
C1_Witness ==
    /\ apiPc = "done"
    /\ apiResult.state = "fulfilled"
    /\ ~apiResult.value.success
    /\ maxRetries >= 2
    /\ fetchCalls = maxRetries + 1

\* C2: the promise fetchAPI returns never rejects; after a failing last
\* attempt it is fulfilled with a result whose success is false.
C2_NeverRejects ==
    apiPc = "done" =>
        /\ apiResult.state = "fulfilled"
        /\ IsFailure(Last(fetchLog)) => ~apiResult.value.success

\* C3: when attempt k+1 is a 2xx response with a parseable body after k failed
\* attempts, the call has returned { success: true, data: the parsed body }
\* and exactly k+1 calls to fetch were made, k <= maxRetries.
C3_SuccessAfterFailures ==
    (fetchLog # <<>> /\ IsSuccess(Last(fetchLog))) =>
        /\ apiPc = "done"
        /\ apiResult = Fulfilled([success |-> TRUE,
                                  data |-> JSONparse(Last(fetchLog).body).value])
        /\ fetchCalls = Len(fetchLog)
        /\ Len(fetchLog) - 1 <= maxRetries
        /\ \A i \in 1..(Len(fetchLog) - 1) : IsFailure(fetchLog[i])

\* C3 witness: maxRetries = 3, two failures, then a success with a non-empty
\* list; three calls to fetch.
C3_Witness ==
    /\ maxRetries = DEFAULT_MAX_RETRIES
    /\ Len(fetchLog) = 3
    /\ IsFailure(fetchLog[1]) /\ IsFailure(fetchLog[2])
    /\ fetchLog[3] = Response(200, JSONstringify(Arr(<<Obj(<<<<"id", Num(1)>>>>)>>)))
    /\ fetchCalls = 3
    /\ apiResult = Fulfilled([success |-> TRUE, data |-> Arr(<<Obj(<<<<"id", Num(1)>>>>)>>)])

\* the message of a failed attempt; the fallback text where the failure
\* carries no message
MessageOfFailure(o) ==
    CASE o.kind = "response" /\ ~ResponseOk(o.status) -> Str(HttpErrorMessage(o.status))
      [] o.kind = "response" -> Str("Unexpected end of JSON input")
      [] o.kind = "reject" /\ o.reason.t = "error" /\ o.reason.message # "" ->
             Str(o.reason.message)
      [] OTHER -> Str("Failed to fetch data from API")

\* C4: when all maxRetries+1 attempts have failed, the call has returned
\* { success: false, error: m }, m the message of the last failure.
C4_LastFailureMessage ==
    ( /\ apiPc = "done"
      /\ Len(fetchLog) = maxRetries + 1
      /\ \A i \in 1..Len(fetchLog) : IsFailure(fetchLog[i]) ) =>
        apiResult = Fulfilled([success |-> FALSE,
                               error |-> MessageOfFailure(Last(fetchLog))])

\* C5: every failed attempt k (0-indexed) with k < maxRetries is followed by a
\* sleep of exactly retryDelay * 1.5^k; the delays of a call never decrease;
\* and there is no sleep after the final failed attempt or after a success.
C5_Backoff ==
    /\ \A i \in FailedWithAttemptsLeft :
          Len(sleepLog) >= i /\ DelayEquals(sleepLog[i], retryDelay, i - 1)
    /\ \A i \in 1..(Len(sleepLog) - 1) : RationalLeq(sleepLog[i], sleepLog[i + 1])
    /\ Len(sleepLog) <= Cardinality(FailedWithAttemptsLeft)

\* C6: an attempt that ends in a 2xx response with a malformed body is one
\* attempt like any failed one: with attempts remaining it is followed by the
\* sleep of retryDelay * 1.5^k and then the next call to fetch; as the last
\* attempt it makes the call return { success: false, error: its message }.
C6_ParseFailureIsFailure ==
    \A i \in 1..Len(fetchLog) :
        IsParseFailure(fetchLog[i]) =>
            IF i - 1 < maxRetries
            THEN /\ Len(sleepLog) >= i
                 /\ DelayEquals(sleepLog[i], retryDelay, i - 1)
                 /\ \/ apiPc = "awaitSleep" /\ attempt = i - 1 /\ fetchCalls = i
                    \/ fetchCalls >= i + 1
            ELSE /\ apiPc = "done"
                 /\ fetchCalls = i
                 /\ apiResult = Fulfilled([success |-> FALSE,
                                           error |-> Str("Unexpected end of JSON input")])

\* C6 witness: a malformed body on the first attempt was retried after the
\* backoff, and a malformed body on the last attempt ended the call.
C6_Witness ==
    /\ maxRetries >= 1
    /\ Len(fetchLog) = maxRetries + 1
    /\ IsParseFailure(fetchLog[1])
    /\ IsParseFailure(Last(fetchLog))
    /\ Len(sleepLog) = maxRetries
    /\ apiPc = "done"
    /\ ~apiResult.value.success

(***************************************************************************)
(* Properties of the TTL cache, checked under SpecCache                    *)
(***************************************************************************)
\* the stored string is a cache entry: JSON text of an object with a data
\* property and a numeric timestamp
IsEntry(cached) ==
    /\ cached # NoItem
    /\ JSONparse(cached.text).ok
    /\ JSONparse(cached.text).value.t = "obj"
    /\ GetProp(JSONparse(cached.text).value, "timestamp").t = "num"
    /\ GetProp(JSONparse(cached.text).value, "data").t # "undefined"

EntryData(cached) == GetProp(JSONparse(cached.text).value, "data")
EntryTimestamp(cached) == GetProp(JSONparse(cached.text).value, "timestamp").n

\* the last cache operation was a getCachedData in which getItem returned
GetReturned == lastCall.op = "get" /\ ~lastCall.threw

\* C7: a getCachedData(k) that directly follows a setCachedData(k, v) the
\* storage accepted, and reads the storage, returns v when the clock has
\* moved by at most CACHE_EXPIRY in between.
C7_RoundTrip ==
    ( /\ GetReturned
      /\ lastCall.prior.op = "set"
      /\ lastCall.prior.accepted
      /\ lastCall.at - lastCall.prior.at <= CACHE_EXPIRY ) =>
        lastCall.ret = lastCall.prior.data

\* C7 witness: a list was set, the clock moved by exactly CACHE_EXPIRY, and
\* the get that followed returned the list.
C7_Witness ==
    /\ GetReturned
    /\ lastCall.prior.op = "set"
    /\ lastCall.prior.accepted
    /\ lastCall.at - lastCall.prior.at = CACHE_EXPIRY
    /\ lastCall.prior.data = Arr(<<Obj(<<<<"id", Num(1)>>>>)>>)
    /\ lastCall.ret = lastCall.prior.data

HasExpiredTimestamp(cached, t) ==
    /\ cached # NoItem
    /\ JSONparse(cached.text).ok
    /\ GetProp(JSONparse(cached.text).value, "timestamp").t = "num"
    /\ t - GetProp(JSONparse(cached.text).value, "timestamp").n > CACHE_EXPIRY

\* C9: a getCachedData(k) that finds a timestamp older than CACHE_EXPIRY
\* returns null and leaves no item under the key; from then until something
\* is written under the key there is no item, and every getCachedData(k)
\* returns null whatever the clock reads.
C9_ExpiredIsRemoved ==
    /\ (GetReturned /\ HasExpiredTimestamp(lastCall.found, lastCall.at)) =>
          /\ lastCall.ret = Null
          /\ storage[CACHE_PREFIX \o lastCall.key] = NoItem
          /\ lastCall.key \in expiredRead
    /\ \A k \in expiredRead : storage[CACHE_PREFIX \o k] = NoItem
    /\ (lastCall.op = "get" /\ lastCall.key \in expiredRead) => lastCall.ret = Null

\* C9 witness: after the expired read the clock was set back to 0 and the
\* key was read again: nothing was found.
C9_Witness ==
    /\ GetReturned
    /\ lastCall.key \in expiredRead
    /\ lastCall.found = NoItem
    /\ lastCall.at = 0
    /\ lastCall.ret = Null

\* C10: a getCachedData in which getItem throws, or that finds a string that
\* is not the JSON text of a { data, timestamp } object, returns null (or
\* undefined): nothing stored is returned.
C10_FaultReadsAbsent ==
    ( /\ lastCall.op = "get"
      /\ lastCall.threw \/ (lastCall.found # NoItem /\ ~IsEntry(lastCall.found)) ) =>
        IsNullish(lastCall.ret)


\* ---- setCachedData and the clear operations ----

\* the step is a call of setCachedData
IsSetStep == lastCall'.op = "set" /\ lastCall' # lastCall

\* C11: setCachedData never throws to its caller; the key's item afterwards is
\* either the whole entry { data, timestamp: now } or, when setItem faults,
\* the item stored before the call; no other storage key changes.
C11_WriteIsAtomic ==
    [][IsSetStep =>
         LET cacheKey == CACHE_PREFIX \o lastCall'.key IN
         /\ ~lastCall'.threw
         /\ IF lastCall'.accepted
            THEN /\ JSONparse(storage'[cacheKey].text).ok
                 /\ JSONparse(storage'[cacheKey].text).value
                      = Obj(<<<<"data", lastCall'.data>>, <<"timestamp", Num(now)>>>>)
            ELSE storage'[cacheKey] = storage[cacheKey]
         /\ \A k \in DOMAIN storage \ {cacheKey} : storage'[k] = storage[k]]_vars

\* a faulting write has left an entry holding other data in place
C11_Witness ==
    /\ lastCall.op = "set" /\ ~lastCall.accepted /\ ~lastCall.threw
    /\ IsEntry(storage[CACHE_PREFIX \o lastCall.key])
    /\ EntryData(storage[CACHE_PREFIX \o lastCall.key]) # lastCall.data

\* the step is a call of clearCache or of clearAllCaches
IsClearStep == lastCall'.op = "clear" /\ (lastCall' # lastCall \/ storage' # storage)
IsClearAllStep ==
    lastCall'.op = "clearAll" /\ (lastCall' # lastCall \/ storage' # storage)

\* C12: clearCache(k) removes the item under prefix+k and changes no other
\* storage key; clearAllCaches removes the item of every cache key and leaves
\* the theme key as it was.
C12_ClearFrame ==
    [][/\ IsClearStep =>
            \A k \in DOMAIN storage :
               storage'[k] = IF k = CACHE_PREFIX \o lastCall'.key THEN NoItem
                             ELSE storage[k]
       /\ IsClearAllStep =>
            /\ \A key \in Keys : storage'[CACHE_PREFIX \o key] = NoItem
            /\ storage'[THEME_KEY] = storage[THEME_KEY]]_vars

\* clearAllCaches has removed both cache entries and the theme is still stored
C12_Witness ==
    /\ lastCall.op = "clearAll" /\ lastCall.removed = Cardinality(Keys)
    /\ storage[THEME_KEY] = Item(THEME_DARK)

\* clearCache has removed one entry while the other cache entry is still stored
C12_WitnessOne ==
    /\ lastCall.op = "clear"
    /\ storage[CACHE_PREFIX \o lastCall.key] = NoItem
    /\ \E key \in Keys \ {lastCall.key} : IsEntry(storage[CACHE_PREFIX \o key])

(***************************************************************************)
(* Properties of fetchWithCache, checked under SpecFwc and SpecRace        *)
(***************************************************************************)
\* the call of SpecFwc, and the storage key of its entry
TheCall == calls[1]
TheKey == CACHE_PREFIX \o BlogsKey

\* the call found a valid entry: the storage did not fault and the function
\* it was given returned a promise
FoundValid(c) ==
    /\ c.st # "idle"
    /\ c.valid /\ ~c.readFault /\ ~c.threwOnCall

\* what a getCachedData of the call's key would return in this state
WouldRead == ReadCache(storage[TheKey], now).ret

\* the entry under the key is the one the call wrote, and is within its TTL
HoldsCallsWrite ==
    writer[BlogsKey] = 1 /\ HoldsValid(storage[TheKey], now)

\* C13: with a valid entry holding OLD and a fetch that resolves with
\* success and other data NEW, the call resolves with OLD, and after the
\* fetch settled and its write was stored a read within the TTL returns NEW.
C13_StaleThenFresh ==
    (/\ FoundValid(TheCall) /\ TheCall.st = "done"
     /\ TheCall.fetched.state = "fulfilled"
     /\ TheCall.fetched.value.success
     /\ TheCall.fetched.value.data # TheCall.cached)
    => /\ TheCall.result.state = "fulfilled"
       /\ TheCall.result.value.data = TheCall.cached
       /\ (TheCall.wrote = "stored" /\ HoldsCallsWrite)
            => WouldRead = TheCall.fetched.value.data

\* the same, for the values the test on line 95 takes for a hit
StaleThenFreshWhenTruthy ==
    (TheCall.st # "idle" /\ CacheHit(TheCall.cached)) => C13_StaleThenFresh

\* C14: with a valid entry, whatever value it stores, the call returns that
\* value tagged fromCache: true while the fetch it started is still pending.
C14_AnyValidValueIsAHit ==
    FoundValid(TheCall)
    => /\ TheCall.path = "hit"
       /\ TheCall.result
            = Fulfilled([success |-> TRUE, data |-> TheCall.cached, fromCache |-> TRUE])

\* the call goes from awaiting its fetch to done, the fetch having resolved
MissReturns ==
    /\ calls[1].st = "awaiting" /\ calls'[1].st = "done"
    /\ calls'[1].fetched.state = "fulfilled"

RevalidationFails ==
    /\ calls[1].st = "revalidating" /\ calls'[1].st = "done"
    /\ \/ calls'[1].fetched.state = "rejected"
       \/ ~calls'[1].fetched.value.success

\* C16: when the background revalidation rejects or resolves with
\* success: false, the storage is left as it was, so an entry that read as
\* the cached value before still reads as the cached value.
C16_FailedRevalidationKeepsEntry ==
    [][RevalidationFails
         => /\ storage' = storage
            /\ WouldRead = calls[1].cached
                 => ReadCache(storage'[TheKey], now').ret = calls[1].cached]_vars

\* the revalidation of a hit has failed and the entry still reads as before
C16_Witness ==
    /\ TheCall.st = "done" /\ TheCall.path = "hit" /\ ~TheCall.threwOnCall
    /\ \/ TheCall.fetched.state = "rejected"
       \/ ~TheCall.fetched.value.success
    /\ WouldRead = TheCall.cached

\* C17: on the cache-hit path the promise of the call is fulfilled with the
\* cached value, whatever the invocation of the fetch does.
C17_HitAlwaysFulfils ==
    (TheCall.st # "idle" /\ TheCall.path = "hit")
    => TheCall.result
         = Fulfilled([success |-> TRUE, data |-> TheCall.cached, fromCache |-> TRUE])

\* the background revalidation of the call writes the cache
RevalidationWrites ==
    /\ calls[1].st = "revalidating" /\ calls'[1].st = "done"
    /\ calls'[1].wrote # "none"

\* C18: on the cache-hit path the call has returned the cached value while
\* its background fetch is still pending, and so before the write its
\* revalidation makes.
C18_ReturnPrecedesRevalidation ==
    [][/\ calls'[1].st = "revalidating"
            => /\ calls'[1].fetched = Pending
               /\ calls'[1].result.state = "fulfilled"
               /\ calls'[1].result.value.data = calls'[1].cached
       /\ RevalidationWrites
            => /\ calls[1].result.state = "fulfilled"
               /\ calls'[1].result = calls[1].result]_vars

\* the call returned the cached value and its revalidation has since written
C18_Witness ==
    /\ TheCall.st = "done" /\ TheCall.path = "hit"
    /\ TheCall.wrote = "stored"
    /\ TheCall.result.state = "fulfilled"
    /\ TheCall.result.value.data = TheCall.cached

\* the call has returned the cached value and its fetch has not settled
C18_WitnessPending ==
    /\ TheCall.st = "revalidating" /\ TheCall.fetched = Pending
    /\ TheCall.result.state = "fulfilled"

\* the call's fetch resolved with a success
Succeeded(c) ==
    /\ calls[c].st = "done"
    /\ calls[c].fetched.state = "fulfilled"
    /\ calls[c].fetched.value.success

\* C19: calls with the same key are not coordinated: every call started has
\* invoked its own fetch, every fetch that succeeded made its write, and
\* the entry under a key holds the data of the call whose write the storage
\* accepted last.
C19_LastWriteWins ==
    /\ \A c \in CallIds :
          /\ calls[c].st # "idle" => "fetched" \in DOMAIN calls[c]
          /\ calls[c].st \in {"awaiting", "revalidating"} => calls[c].fetched = Pending
          /\ Succeeded(c) => calls[c].wrote \in {"stored", "fault"}
    /\ \A k \in Keys :
          writer[k] # 0
          => /\ Succeeded(writer[k]) /\ calls[writer[k]].key = k
             /\ IsEntry(storage[CACHE_PREFIX \o k])
             /\ EntryData(storage[CACHE_PREFIX \o k])
                  = calls[writer[k]].fetched.value.data

\* two calls with one key both fetched and wrote, with different data, and
\* the entry holds the later write
C19_Witness ==
    \E c, d \in CallIds :
       /\ c # d /\ calls[c].st = "done" /\ calls[d].st = "done"
       /\ calls[c].key = calls[d].key
       /\ calls[c].wrote = "stored" /\ calls[d].wrote = "stored"
       /\ calls[c].fetched.value.data # calls[d].fetched.value.data
       /\ writer[calls[c].key] = d
       /\ EntryData(storage[CACHE_PREFIX \o calls[c].key]) = calls[d].fetched.value.data

\* two calls with one key are awaiting their own fetches together
C19_WitnessInFlight ==
    \E c, d \in CallIds :
       /\ c # d
       /\ calls[c].st = "awaiting" /\ calls[d].st = "awaiting"
       /\ calls[c].key = calls[d].key

\* the data payload of a call that returned a success
Payload(c) == IF c.path = "hit" THEN c.cached ELSE c.fetched.value.data

\* C20: a call that succeeds resolves to the data payload itself, the cached
\* data on a hit and the data of the fetch's result on a miss, which the
\* cached home-page loaders render as a list.
C20_ResolvesToPayload ==
    (/\ TheCall.st # "idle"
     /\ TheCall.result.state = "fulfilled"
     /\ TheCall.result.value.success)
    => /\ TheCall.result.value = Payload(TheCall)
       /\ LoaderView(TheCall.result.value) # "error"

\* the entry has been cleared with the call's background revalidation in
\* flight, and nothing has touched the cache since
ClearedInFlight ==
    /\ lastCall = [op |-> "clear", key |-> BlogsKey]
    /\ calls[1].st = "revalidating"

\* C22: after clearCache(k) the key reads as absent until a write by a call
\* started after the clear: the fetch of a fetchWithCache(k) that was in
\* flight when the clear ran settles without re-creating the entry.
C22_ClearOutlivesInFlightWrite ==
    [][(ClearedInFlight /\ calls'[1].st = "done")
         => ReadCache(storage'[TheKey], now').ret = Null]_vars

\* the fetch of call c settles in this step
Settles(c) ==
    calls[c].st \in {"awaiting", "revalidating"} /\ calls'[c].st = "done"

\* C23: a settlement writes nothing unless the fetch resolved with
\* success: true, and then only the key of the call, with the data field of
\* the result; a result with success: false, on either path, leaves every
\* storage entry as it was.
C23_OnlySuccessIsCached ==
    [][\A c \in CallIds :
          Settles(c)
          => IF /\ calls'[c].fetched.state = "fulfilled"
                /\ calls'[c].fetched.value.success
             THEN \/ storage' = storage
                  \/ /\ IsEntry(storage'[CACHE_PREFIX \o calls[c].key])
                     /\ EntryData(storage'[CACHE_PREFIX \o calls[c].key])
                          = calls'[c].fetched.value.data
                     /\ \A k \in DOMAIN storage \ {CACHE_PREFIX \o calls[c].key} :
                           storage'[k] = storage[k]
             ELSE storage' = storage]_vars

\* the revalidation of a hit has resolved with success: false, and the entry
\* is still the one the successful call before it wrote
C23_Witness ==
    \E c, d \in CallIds :
       /\ calls[c].st = "done" /\ calls[c].path = "hit"
       /\ calls[c].fetched = Fulfilled(FailureResult)
       /\ Succeeded(d) /\ calls[d].key = calls[c].key
       /\ writer[calls[c].key] = d
       /\ EntryData(storage[CACHE_PREFIX \o calls[c].key]) = calls[d].fetched.value.data

\* a fetch on the miss path has resolved with success: false and the key is
\* still absent
C23_WitnessMiss ==
    \E c \in CallIds :
       /\ calls[c].st = "done" /\ calls[c].path = "miss"
       /\ calls[c].fetched = Fulfilled(FailureResult)
       /\ storage[CACHE_PREFIX \o calls[c].key] = NoItem

\* the call returned a value tagged fromCache: true
ReturnedFromCache(c) ==
    /\ c.st # "idle"
    /\ c.result.state = "fulfilled"
    /\ "fromCache" \in DOMAIN c.result.value

\* C24: a value returned tagged fromCache: true comes from an entry whose
\* timestamp was at most CACHE_EXPIRY older than the clock when the call
\* was made.
C24_ServedWithinTtl ==
    ReturnedFromCache(TheCall) => TheCall.valid

\* the same, for an entry that setCachedData wrote
ServedWithinTtlWhenWritten ==
    (ReturnedFromCache(TheCall) /\ TheCall.written) => TheCall.valid

C25_WitnessMiss ==
    /\ TheCall.st = "done" /\ TheCall.path = "miss" /\ ~TheCall.threwOnCall
    /\ TheCall.invoked = 1

\* C26: when every transport call settles and every backoff timer fires, a
\* call of fetchAPI eventually returns a result, a success or a failure.
C26_EventuallyReturns ==
    (apiPc # "idle") ~> (apiResult.state = "fulfilled")

\* under the same assumptions a call of fetchAPI eventually ends, with a
\* result or with the exception of its catch block: it never retries for ever
EventuallyEnds ==
    (apiPc # "idle") ~> (apiPc = "done" /\ apiResult # Pending)

(***************************************************************************)
(* Properties of the page loaders, checked under SpecPages                 *)
(***************************************************************************)
\* the loader's fetch ended in retry exhaustion: { success: false, error }
EndedInExhaustion(l) ==
    loads[l].pc = "done" /\ loads[l].fetched = Fulfilled(FailureResult)

\* C21: when a page loader's fetch ends in retry exhaustion, the loader's
\* promise is fulfilled and its container shows an error placeholder, not
\* the page's initial content, the loading state or the empty state.
C21_FailureIsPresented ==
    \A l \in Loaders :
       EndedInExhaustion(l)
       => /\ loads[l].promise.state = "fulfilled"
          /\ loads[l].view \in {"error", "notFound"}

\* the same, for the loaders that test response.success or fail on the
\* result object
FailureIsPresentedWhereTested ==
    \A l \in {"loadBlogs", "loadBlogPost", "loadLatestBlogsCached"} :
       EndedInExhaustion(l)
       => /\ loads[l].promise.state = "fulfilled"
          /\ loads[l].view \in {"error", "notFound"}

(***************************************************************************)
(* Properties of the theme system, checked under SpecTheme                 *)
(***************************************************************************)
\* the system preference changes after initTheme has run
ChangesAfterInit == themeReady /\ systemDark' # systemDark

\* C27: after initTheme, a change of the system preference switches the
\* applied theme to the new preference when the user has never used the
\* toggle, and leaves the applied theme alone once the user has.
C27_FollowsSystemUntilToggled ==
    [][ChangesAfterInit
         => IF manual THEN darkClass' = darkClass
            ELSE darkClass' = systemDark']_vars

\* the half that holds: once the user has used the toggle, a change of the
\* system preference leaves the applied theme alone
ManualThemeIsKept ==
    [][(ChangesAfterInit /\ manual) => darkClass' = darkClass]_vars


====
